---- MODULE Spec2Model ----
(***************************************************************************)
(* VIP InvestBot (src/investbot.py): the alert ledger (sent_alerts.log and *)
(* sent_alerts_cache), the two scanners, delivery and the orchestrator     *)
(* run_vip_monitoring, as run by __main__: load, construct, one pass,      *)
(* save, exit.                                                             *)
(*                                                                         *)
(* Strings are sequences of pieces.  A piece is a literal fragment of a    *)
(* Python string: the whitespace characters "\n" and " " are pieces of     *)
(* their own, every other piece holds no whitespace.  Collation lists the  *)
(* pieces in Python's string order (code points), so sorted() and strip()  *)
(* are computed as Python computes them.                                   *)
(*                                                                         *)
(* Numbers: prices are integer cents, percentages and thresholds are in    *)
(* thousandths of a percent (3.5% is 3500).  Dates are day numbers, day 0  *)
(* being Thursday 2025-01-16; the time of day is in minutes after midnight.  *)
(* The host clock and the Eastern clock are taken to agree.                *)
(***************************************************************************)
EXTENDS Integers, Sequences, FiniteSets, TLC

VARIABLES
    store,                  \* content of STATE_FILE, a string
    storeExists,            \* os.path.exists(STATE_FILE)
    sent_alerts_cache,      \* the in-memory set of alert keys
    pc,                     \* position of the process in __main__
    now,                    \* wall clock of the run: [day, hm, sec]
    telegram,               \* bot_token and chat_id are both set
    daily_summary_sent_key, \* VIPInvestBot.daily_summary_sent_key
    new_filings,            \* run_vip_monitoring.new_filings
    big_moves,              \* run_vip_monitoring.big_moves
    alerts_sent_this_run,   \* run_vip_monitoring.alerts_sent_this_run
    sendResult,             \* per batch kind: "none", "ok" or "fail" (this pass)
    saveOk,                 \* the last save_sent_alerts wrote the whole file
    loadOk,                 \* the load_sent_alerts of this run read the whole file
    runs,                   \* number of processes started so far
    ioFailures,             \* number of loads and saves that have failed so far
    sentLog,                \* history: what was delivered successfully
    resent,                 \* history: what was delivered again
    savedSet,               \* history: the cache the last save was given
    prevStore,              \* history: the file as it was before the last save
    listed,                 \* history: the filings the last scan was served
    crossed,                \* history: the symbols the last scan saw cross
    probe,                  \* the inputs and results of a function examined
                            \* on its own
    peer                    \* the memory of a second process, while this
                            \* one runs

vars == <<store, storeExists, sent_alerts_cache, pc, now, telegram,
          daily_summary_sent_key, new_filings, big_moves,
          alerts_sent_this_run, sendResult, saveOk, loadOk, runs, ioFailures,
          sentLog, resent, savedSet, prevStore, listed, crossed,
          probe, peer>>

----------------------------------------------------------------------------
(* Bounds of the model *)

MaxRuns == 2
MaxIoFailures == 1
MaxDay == 1
MaxFilings == 1
MaxKeys == 2
MaxKeyLen == 2
MaxMarketDay == 5
MaxScanFilings == 2

----------------------------------------------------------------------------
(* Strings *)

NL == "\n"
SP == " "

Whitespace == {NL, SP}

Collation ==
    << NL, SP, "-", "0", "1", "10", "1067983", "1350694", "16",
       "2025-01-16", "2025-01-17", "2025-01-18", "2025-01-19", "2025-01-20",
       "AAPL", "TSLA", "a", "file-", "price-", "summary-" >>

Ord(c) == CHOOSE i \in 1..Len(Collation) : Collation[i] = c

\* Python's str.__lt__: lexicographic, a proper prefix is smaller
RECURSIVE StrLess(_, _)
StrLess(a, b) ==
    IF b = <<>> THEN FALSE
    ELSE IF a = <<>> THEN TRUE
    ELSE IF Head(a) # Head(b) THEN Ord(Head(a)) < Ord(Head(b))
    ELSE StrLess(Tail(a), Tail(b))

\* a sort that puts the largest string first
RECURSIVE SortedDescending(_)
SortedDescending(S) ==
    IF S = {} THEN <<>>
    ELSE LET m == CHOOSE x \in S : \A y \in S \ {x} : StrLess(y, x)
         IN  <<m>> \o SortedDescending(S \ {m})

\* sorted(list(s)) for a set of strings
RECURSIVE Sorted(_)
Sorted(S) ==
    IF S = {} THEN <<>>
    ELSE LET m == CHOOSE x \in S : \A y \in S \ {x} : StrLess(x, y)
         IN  <<m>> \o Sorted(S \ {m})

RECURSIVE LStrip(_)
LStrip(s) ==
    IF s # <<>> /\ Head(s) \in Whitespace THEN LStrip(Tail(s)) ELSE s

RECURSIVE RStrip(_)
RStrip(s) ==
    IF s # <<>> /\ s[Len(s)] \in Whitespace
    THEN RStrip(SubSeq(s, 1, Len(s) - 1)) ELSE s

\* a line taken as it is read
StripNothing(s) == s

\* str.strip()
Strip(s) == LStrip(RStrip(s))

\* iteration over a text file: the lines, each with its "\n" when it has one
RECURSIVE FileLines(_, _)
FileLines(text, cur) ==
    IF text = <<>> THEN (IF cur = <<>> THEN <<>> ELSE <<cur>>)
    ELSE IF Head(text) = NL
         THEN <<Append(cur, NL)>> \o FileLines(Tail(text), <<>>)
         ELSE FileLines(Tail(text), Append(cur, Head(text)))

RECURSIVE Concat(_)
Concat(ss) == IF ss = <<>> THEN <<>> ELSE Head(ss) \o Concat(Tail(ss))

Range(f) == {f[i] : i \in DOMAIN f}

----------------------------------------------------------------------------
(* Alert ledger: src/investbot.py lines 18-49 *)

\* a text of the keys with no line ends
SavedTextNoLineEnds(cache) == Concat(Sorted(cache))

\* the text save_sent_alerts writes: every key of the cache, sorted, each
\* followed by "\n"
SavedText(cache) ==
    LET keys == Sorted(cache)
    IN  Concat([i \in 1..Len(keys) |-> keys[i] \o <<NL>>])

\* the keys of every line of the text, whatever was read
LoadedKeysToTheEnd(text, n) ==
    LET lines == FileLines(text, <<>>)
    IN  {Strip(lines[i]) : i \in 1..Len(lines)}

\* the keys load_sent_alerts adds after reading the first n lines
LoadedKeys(text, n) ==
    LET lines == FileLines(text, <<>>)
    IN  {Strip(lines[i]) : i \in 1..n}

NumLines(text) == Len(FileLines(text, <<>>))

\* a ledger that answers no to every key
HasNeverBeenSent(alert_key) == FALSE

has_alert_been_sent(alert_key) == alert_key \in sent_alerts_cache

\* a ledger that keeps the last key only
MarkReplacing(cache, alert_key) == {alert_key}

mark_alert_as_sent(cache, alert_key) == cache \cup {alert_key}

----------------------------------------------------------------------------
(* Session clock: class MarketHours, src/investbot.py lines 51-124 *)

\* datetime.weekday(): Monday is 0; day 0 is a Thursday
Weekday(day) == (3 + day) % 7

\* market_holidays as day numbers (2025-01-01, 01-20, 02-17, 04-18, 05-26,
\* 06-19, 07-04, 09-01, 11-27, 12-25)
market_holidays == {-15, 4, 32, 92, 130, 154, 169, 228, 315, 343}

\* a session whose regular hours end after 16:00
SessionClosingLate(t) ==
    IF Weekday(t.day) >= 5 \/ t.day \in market_holidays THEN "closed"
    ELSE IF t.hm < 4 * 60 THEN "closed"
    ELSE IF t.hm < 9 * 60 + 30 THEN "pre_market"
    ELSE IF t.hm <= 16 * 60 THEN "regular"
    ELSE IF t.hm < 20 * 60 THEN "after_hours"
    ELSE "closed"

\* an end of day told by the minute only
EndOfDayByTheMinute(t) ==
    IF Weekday(t.day) >= 5 \/ t.day \in market_holidays THEN FALSE
    ELSE t.hm >= 16 * 60 + 30 /\ t.hm <= 17 * 60

is_market_holiday(t) == t.day \in market_holidays

is_weekend(t) == Weekday(t.day) >= 5

get_market_session(t) ==
    IF is_weekend(t) \/ is_market_holiday(t) THEN "closed"
    ELSE IF t.hm < 4 * 60 THEN "closed"
    ELSE IF t.hm < 9 * 60 + 30 THEN "pre_market"
    ELSE IF t.hm < 16 * 60 THEN "regular"
    ELSE IF t.hm < 20 * 60 THEN "after_hours"
    ELSE "closed"

\* now.time() >= 16:30 and now.time() <= 17:00; t.sec is what the time has
\* past its minute
is_end_of_trading_day(t) ==
    IF is_weekend(t) \/ is_market_holiday(t) THEN FALSE
    ELSE /\ t.hm >= 16 * 60 + 30
         /\ t.hm < 17 * 60 \/ (t.hm = 17 * 60 /\ t.sec = 0)

\* strftime('%Y-%m-%d') of a day number
DateStr(day) ==
    << "2025-01-16", "2025-01-17", "2025-01-18", "2025-01-19",
       "2025-01-20" >>[day + 1]

\* strftime('%H') of the hours the model's clock shows
HourStr(h) == IF h = 10 THEN "10" ELSE "16"

----------------------------------------------------------------------------
(* Static configuration of VIPInvestBot *)

\* the first entries of vip_traders, in insertion order; the first two
\* share a registrant id
vip_traders ==
    << [trader |-> "Warren Buffett", cik |-> "1067983"],
       [trader |-> "Charlie Munger", cik |-> "1067983"] >>

\* the watched symbols of the model, of major_tickers
major_tickers == << "AAPL", "TSLA" >>

large_cap_stable ==
    {"AAPL", "MSFT", "GOOGL", "GOOG", "AMZN", "BRK-B", "JPM", "V", "MA",
     "UNH", "JNJ", "PG", "HD", "PFE", "KO", "PEP", "WMT", "MCD"}

high_volatility ==
    {"TSLA", "NVDA", "AMD", "ROKU", "ZM", "PTON", "SNAP", "UBER", "COIN",
     "HOOD", "RIVN", "LCID", "NIO", "XPEV", "PLTR"}

allowed_forms == {"13F-HR", "13F-NT", "4", "SC 13G", "SC 13D", "8-K"}

\* A percentage is a float in the code. The model writes a float as
\* 10 * d + u, where d is, in thousandths of a percent, the decimal value
\* whose nearest double the float is or lies next to, and u counts the
\* units in the last place by which the float lies above that double:
\* 3.85 is 38500 and 3.8500000000000005 is 38501.

\* a product with no rounding
NoRounding(base, m10) == 0

\* the units in the last place by which the double product base * m lies
\* above the double nearest the decimal product; m10 is ten times m
\* (3.5 * 1.1 = 3.8500000000000005, 6.0 * 1.3 = 7.800000000000001,
\* 6.0 * 1.1 = 6.6000000000000005, 4.5 * 1.3 = 5.8500000000000005)
ProductUlps(base, m10) ==
    IF <<base, m10>> \in {<<35000, 11>>, <<60000, 13>>, <<60000, 11>>,
                          <<45000, 13>>}
    THEN 1 ELSE 0

\* the float product base * m
FloatProduct(base, m10) == (base * m10) \div 10 + ProductUlps(base, m10)

\* the bases are 3.5, 6.0 and 4.5, the multipliers 2.0, 1.3 and 1.1; in
\* the regular session the base is returned as it is
get_alert_threshold(ticker, t) ==
    LET base_threshold ==
            IF ticker \in large_cap_stable THEN 35000
            ELSE IF ticker \in high_volatility THEN 60000 ELSE 45000
        session == get_market_session(t)
    IN  IF session = "closed" THEN FloatProduct(base_threshold, 20)
        ELSE IF session = "pre_market" THEN FloatProduct(base_threshold, 13)
        ELSE IF session = "after_hours" THEN FloatProduct(base_threshold, 11)
        ELSE base_threshold

Abs(x) == IF x < 0 THEN -x ELSE x

----------------------------------------------------------------------------
(* Alert identities *)

FilingKey(cik, accession) == <<"file-", cik, "-">> \o accession

PriceKey(ticker, t) ==
    <<"price-", ticker, "-", DateStr(t.day), "-", HourStr(t.hm \div 60)>>

SummaryKey(t) == <<"summary-", DateStr(t.day)>>

----------------------------------------------------------------------------
(* Filing scanner: check_vip_filings, lines 278-310 *)

\* what the filings source may answer to one request: a transport or
\* decoding failure (raises), a status other than 200, or the recent filings
\* as entries of form, filingDate and accessionNumber; an accession number
\* is a string of digits and hyphens
SecFilings ==
    { [form |-> "4",    filingDate |-> 0,  accessionNumber |-> <<"0">>],
      [form |-> "8-K",  filingDate |-> -5, accessionNumber |-> <<"1">>],
      [form |-> "10-K", filingDate |-> 0,  accessionNumber |-> <<"10">>],
      [form |-> "4",    filingDate |-> -6, accessionNumber |-> <<"10">>] }

SecResponses ==
    { [raises |-> TRUE, status_code |-> 0, recent |-> <<>>],
      [raises |-> FALSE, status_code |-> 404, recent |-> <<>>] } \cup
    { [raises |-> FALSE, status_code |-> 200, recent |-> r] :
        r \in UNION {[1..n -> SecFilings] : n \in 0..MaxFilings} }

\* a scan of the entries that wants the filing after the cutoff date
RECURSIVE ScanRecentStrict(_, _, _, _)
ScanRecentStrict(info, recent, i, t) ==
    IF i > Len(recent) THEN <<>>
    ELSE LET alert_key == FilingKey(info.cik, recent[i].accessionNumber)
             rest == ScanRecentStrict(info, recent, i + 1, t)
         IN  IF recent[i].form \in allowed_forms
                /\ recent[i].filingDate > t.day - 5
                /\ ~has_alert_been_sent(alert_key)
             THEN << [trader |-> info.trader, form |-> recent[i].form,
                      date |-> recent[i].filingDate,
                      accession_number |-> recent[i].accessionNumber,
                      cik |-> info.cik, alert_key |-> alert_key] >> \o rest
             ELSE rest

\* the events one trader contributes, from entry i of the answer on
RECURSIVE ScanRecent(_, _, _, _)
ScanRecent(info, recent, i, t) ==
    IF i > Len(recent) THEN <<>>
    ELSE LET form == recent[i].form
             filing_date == recent[i].filingDate
             cutoff_date == t.day - 5
             alert_key == FilingKey(info.cik, recent[i].accessionNumber)
             rest == ScanRecent(info, recent, i + 1, t)
         IN  IF form \in allowed_forms /\ filing_date >= cutoff_date
                /\ ~has_alert_been_sent(alert_key)
             THEN << [trader |-> info.trader, form |-> form,
                      date |-> filing_date,
                      accession_number |-> recent[i].accessionNumber,
                      cik |-> info.cik, alert_key |-> alert_key] >> \o rest
             ELSE rest

ScanTrader(info, response, t) ==
    IF response.raises THEN <<>>
    ELSE IF response.status_code # 200 THEN <<>>
    ELSE ScanRecent(info, response.recent, 1, t)

\* a scan that ends at the first request that fails
CheckStoppingAtFailure(answers, t) ==
    LET failing == {i \in 1..Len(vip_traders) : answers[i].raises}
        last == IF failing = {} THEN Len(vip_traders)
                ELSE (CHOOSE i \in failing : \A j \in failing : i <= j) - 1
    IN  Concat([i \in 1..last |-> ScanTrader(vip_traders[i], answers[i], t)])

\* check_vip_filings: answers[i] is the answer to the request for trader i
check_vip_filings(answers, t) ==
    Concat([i \in 1..Len(vip_traders) |->
              ScanTrader(vip_traders[i], answers[i], t)])

\* the filings of an allowed form, dated within the last five days, that
\* the answers hold, named by cik and accession number
Listed(answers, t) ==
    { <<vip_traders[p[1]].cik>> \o answers[p[1]].recent[p[2]].accessionNumber :
        p \in { q \in (1..Len(vip_traders)) \X (1..MaxFilings) :
                  /\ ~answers[q[1]].raises
                  /\ answers[q[1]].status_code = 200
                  /\ q[2] <= Len(answers[q[1]].recent)
                  /\ answers[q[1]].recent[q[2]].form \in allowed_forms
                  /\ answers[q[1]].recent[q[2]].filingDate + 5 >= t.day } }

----------------------------------------------------------------------------
(* Price scanner: check_major_price_moves, lines 312-365 *)

\* what the quote source may answer for one symbol: a failure (raises), an
\* answer without the current price or without the previous close, or
\* current price c and previous close pc, in dollars
Quotes ==
    { [raises |-> TRUE,  has_c |-> FALSE, has_pc |-> FALSE, c |-> 0, pc |-> 0],
      [raises |-> FALSE, has_c |-> TRUE, has_pc |-> FALSE, c |-> 104, pc |-> 0],
      [raises |-> FALSE, has_c |-> TRUE, has_pc |-> TRUE, c |-> 103, pc |-> 100],
      [raises |-> FALSE, has_c |-> TRUE, has_pc |-> TRUE, c |-> 104, pc |-> 100],
      [raises |-> FALSE, has_c |-> TRUE, has_pc |-> TRUE, c |-> 88, pc |-> 100],
      [raises |-> FALSE, has_c |-> TRUE, has_pc |-> TRUE, c |-> 100, pc |-> 0],
      [raises |-> FALSE, has_c |-> TRUE, has_pc |-> TRUE, c |-> 0, pc |-> 100] }

\* ((current_price - previous_close) / previous_close) * 100; for the
\* quotes of the model the float result is the double nearest the decimal
\* value
PriceChangePct(current_price, previous_close) ==
    (((current_price - previous_close) * 100000) \div previous_close) * 10

\* a scan of one symbol that wants the move over the threshold
ScanTickerStrict(ticker, quote, t) ==
    IF quote.raises \/ ~quote.has_c \/ ~quote.has_pc THEN <<>>
    ELSE IF ~(quote.c # 0 /\ quote.pc # 0 /\ quote.pc > 0) THEN <<>>
    ELSE LET price_change_pct == PriceChangePct(quote.c, quote.pc)
             threshold == get_alert_threshold(ticker, t)
             alert_key == PriceKey(ticker, t)
         IN  IF Abs(price_change_pct) > threshold
                /\ ~has_alert_been_sent(alert_key)
             THEN << [ticker |-> ticker, current_price |-> quote.c,
                      previous_close |-> quote.pc,
                      change_pct |-> price_change_pct,
                      alert_key |-> alert_key, threshold |-> threshold] >>
             ELSE <<>>

\* a scan of one symbol that does not consult the ledger
ScanTickerUnchecked(ticker, quote, t) ==
    IF quote.raises \/ ~quote.has_c \/ ~quote.has_pc THEN <<>>
    ELSE IF ~(quote.c # 0 /\ quote.pc # 0 /\ quote.pc > 0) THEN <<>>
    ELSE LET price_change_pct == PriceChangePct(quote.c, quote.pc)
             threshold == get_alert_threshold(ticker, t)
         IN  IF Abs(price_change_pct) >= threshold
             THEN << [ticker |-> ticker, current_price |-> quote.c,
                      previous_close |-> quote.pc,
                      change_pct |-> price_change_pct,
                      alert_key |-> PriceKey(ticker, t),
                      threshold |-> threshold] >>
             ELSE <<>>

ScanTicker(ticker, quote, t) ==
    IF quote.raises \/ ~quote.has_c \/ ~quote.has_pc THEN <<>>
    ELSE IF ~(quote.c # 0 /\ quote.pc # 0 /\ quote.pc > 0) THEN <<>>
    ELSE LET price_change_pct == PriceChangePct(quote.c, quote.pc)
             threshold == get_alert_threshold(ticker, t)
             alert_key == PriceKey(ticker, t)
         IN  IF Abs(price_change_pct) >= threshold
                /\ ~has_alert_been_sent(alert_key)
             THEN << [ticker |-> ticker, current_price |-> quote.c,
                      previous_close |-> quote.pc,
                      change_pct |-> price_change_pct,
                      alert_key |-> alert_key, threshold |-> threshold] >>
             ELSE <<>>

\* a scan that goes on without a client
ScanWithoutClient(key, client, quotes, t) ==
    IF ~key THEN <<>>
    ELSE Concat([i \in 1..Len(major_tickers) |->
                   ScanTicker(major_tickers[i], quotes[i], t)])

\* a scan that ends at the first quote it cannot use
ScanStoppingAtUnusable(key, client, quotes, t) ==
    LET unusable == {i \in 1..Len(major_tickers) :
                       /\ ~quotes[i].raises
                       /\ ~quotes[i].has_c \/ ~quotes[i].has_pc \/ quotes[i].pc <= 0}
        last == IF unusable = {} THEN Len(major_tickers)
                ELSE (CHOOSE i \in unusable : \A j \in unusable : i <= j) - 1
    IN  IF ~key \/ ~client THEN <<>>
        ELSE Concat([i \in 1..last |->
                       ScanTicker(major_tickers[i], quotes[i], t)])

\* check_major_price_moves: key is whether FINNHUB_API_KEY is set, client
\* whether finnhub.Client could be constructed
check_major_price_moves(key, client, quotes, t) ==
    IF ~key THEN <<>>
    ELSE IF ~client THEN <<>>
    ELSE Concat([i \in 1..Len(major_tickers) |->
                   ScanTicker(major_tickers[i], quotes[i], t)])

\* the symbols whose quote is usable and whose move is at or over the
\* threshold of the session
Crossed(key, client, quotes, t) ==
    IF ~(key /\ client) THEN {}
    ELSE { major_tickers[i] :
             i \in { j \in 1..Len(major_tickers) :
                       /\ ~quotes[j].raises
                       /\ quotes[j].has_c
                       /\ quotes[j].has_pc
                       /\ quotes[j].c # 0
                       /\ quotes[j].pc > 0
                       /\ Abs(quotes[j].c - quotes[j].pc) * 1000000 >=
                            get_alert_threshold(major_tickers[j], t) * quotes[j].pc } }

----------------------------------------------------------------------------
(* Delivery and formatting *)

TelegramReplies == {"200", "500", "exception"}

\* a send that takes every reply for a success
SendIgnoringStatus(credentials, reply) == credentials /\ reply # "exception"

\* send_telegram_alert, lines 199-222: True only with credentials and a
\* reply of status 200
send_telegram_alert(credentials, reply) ==
    IF ~credentials THEN FALSE
    ELSE IF reply = "exception" THEN FALSE
    ELSE reply = "200"

\* whether the message reached the channel
Delivered(credentials, reply) == credentials /\ reply = "200"

\* a formatter that renders the events in the order it is given them
MovesAsGiven(moves) == moves

\* moves.sort(key=lambda x: abs(x['change_pct']), reverse=True): stable,
\* largest absolute change first
RECURSIVE SortMoves(_)
SortMoves(moves) ==
    IF moves = <<>> THEN <<>>
    ELSE LET i == CHOOSE j \in 1..Len(moves) :
                    /\ \A k \in 1..Len(moves) :
                         Abs(moves[k].change_pct) <= Abs(moves[j].change_pct)
                    /\ \A k \in 1..(j - 1) :
                         Abs(moves[k].change_pct) < Abs(moves[j].change_pct)
         IN  <<moves[i]>> \o
             SortMoves(SubSeq(moves, 1, i - 1) \o
                       SubSeq(moves, i + 1, Len(moves)))

\* the severity marker of one rendered event, line 396; cut-offs in
\* thousandths of a percent, times ten
SeverityMarker(change_pct) ==
    IF Abs(change_pct) >= 100000 THEN "siren3"
    ELSE IF Abs(change_pct) >= 50000 THEN "siren1" ELSE "warning"

\* the block of one event, lines 395-401
PriceBlock(move) ==
    [urgency |-> SeverityMarker(move.change_pct),
     direction |-> IF move.change_pct > 0 THEN "up" ELSE "down",
     ticker |-> move.ticker,
     current_price |-> move.current_price,
     previous_close |-> move.previous_close,
     change_pct |-> move.change_pct,
     change_amount |-> move.current_price - move.previous_close,
     threshold |-> move.threshold]

\* format_price_movement_alert, lines 384-403: none is whether None is
\* returned; the header says how many events there are when more than one;
\* the blocks are those of the sorted events
format_price_movement_alert(moves) ==
    IF moves = <<>> THEN [none |-> TRUE, count |-> 0, blocks |-> <<>>]
    ELSE [none |-> FALSE,
          count |-> IF Len(moves) > 1 THEN Len(moves) ELSE 1,
          blocks |-> [i \in 1..Len(moves) |-> PriceBlock(SortMoves(moves)[i])]]

\* the block of one filing, lines 378-380
FilingBlock(filing) ==
    [trader |-> filing.trader, form |-> filing.form, date |-> filing.date]

\* format_vip_filing_alert, lines 367-382: filings[0] of an empty list
\* raises IndexError; the header counts the filings when there are several
\* and names the trader when there is one
format_vip_filing_alert(filings) ==
    IF filings = <<>>
    THEN [raises |-> TRUE, count |-> 0, trader |-> "", blocks |-> <<>>]
    ELSE [raises |-> FALSE,
          count |-> Len(filings),
          trader |-> IF Len(filings) > 1 THEN "" ELSE filings[1].trader,
          blocks |-> [i \in 1..Len(filings) |-> FilingBlock(filings[i])]]

\* an urgency that wants the largest move over the cut-off
UrgencyOverCutOff(moves) ==
    IF \E i \in 1..Len(moves) : Abs(moves[i].change_pct) > 100000
    THEN "CRITICAL"
    ELSE IF \E i \in 1..Len(moves) : Abs(moves[i].change_pct) > 50000
         THEN "HIGH" ELSE "MEDIUM"

\* the urgency run_vip_monitoring gives a price batch, lines 438-439
Urgency(moves) ==
    LET max_move == CHOOSE m \in {Abs(moves[i].change_pct) : i \in 1..Len(moves)} :
                       \A i \in 1..Len(moves) : Abs(moves[i].change_pct) <= m
    IN  IF max_move >= 100000 THEN "CRITICAL"
        ELSE IF max_move >= 50000 THEN "HIGH" ELSE "MEDIUM"

Keys(events) == {events[i].alert_key : i \in 1..Len(events)}

\* a counter of events
IncrementByEvents(n, events) == n + Len(events)

\* a count that is never raised
NoIncrement(n, events) == n

\* alerts_sent_this_run += 1, lines 431 and 442: one per delivered batch
IncrementAlerts(n, events) == n + 1

\* a summary considered in every pass
AlwaysConsidered(n) == TRUE

\* line 445: the summary is considered only when no batch was sent
NoAlertsSent(n) == n = 0

\* a marking of the first event only
MarkFirst(cache, events) ==
    IF events = <<>> THEN cache
    ELSE mark_alert_as_sent(cache, Head(events).alert_key)

\* lines 429-430 and 440-441: every event of the batch is marked
RECURSIVE MarkAll(_, _)
MarkAll(cache, events) ==
    IF events = <<>> THEN cache
    ELSE MarkAll(mark_alert_as_sent(cache, Head(events).alert_key),
                 Tail(events))

----------------------------------------------------------------------------
(* The runs of __main__, lines 451-461 *)

Times == {10 * 60, 16 * 60 + 45}

Instants == {[day |-> d, hm |-> m, sec |-> 0] : d \in 0..MaxDay, m \in Times}

NotBefore(t, u) == t.day > u.day \/ (t.day = u.day /\ t.hm >= u.hm)

NoSends == [filings |-> "none", prices |-> "none", summary |-> "none"]

\* history: one entry per delivered event, named by what the event is about
\* and by the clock, not by its alert key
FilingEntries(events) ==
    { [kind |-> "file",
       who |-> <<events[i].cik>> \o events[i].accession_number,
       day |-> 0, hour |-> 0] : i \in 1..Len(events) }

PriceEntries(events, t) ==
    { [kind |-> "price", who |-> <<events[i].ticker>>,
       day |-> t.day, hour |-> t.hm \div 60] : i \in 1..Len(events) }

SummaryEntry(t) ==
    [kind |-> "summary", who |-> <<>>, day |-> t.day, hour |-> 0]

Init ==
    /\ store = <<>>
    /\ storeExists = FALSE
    /\ sent_alerts_cache = {}
    /\ pc = "idle"
    /\ now = [day |-> 0, hm |-> 10 * 60, sec |-> 0]
    /\ telegram = FALSE
    /\ daily_summary_sent_key = <<>>
    /\ new_filings = <<>>
    /\ big_moves = <<>>
    /\ alerts_sent_this_run = 0
    /\ sendResult = NoSends
    /\ saveOk = TRUE
    /\ loadOk = TRUE
    /\ runs = 0
    /\ ioFailures = 0
    /\ sentLog = {}
    /\ resent = {}
    /\ savedSet = {}
    /\ probe = <<>>
    /\ prevStore = <<>>
    /\ listed = {}
    /\ crossed = {}
    /\ peer = <<>>

\* load_sent_alerts, lines 22-31, reading the whole file
load_sent_alerts(cache, exists, text) ==
    IF exists THEN cache \cup LoadedKeys(text, NumLines(text)) ELSE cache

\* line 453 in a new process: the file is missing or is read to its end
LoadSentAlerts ==
    /\ pc = "idle"
    /\ runs < MaxRuns
    /\ runs' = runs + 1
    /\ sent_alerts_cache' = load_sent_alerts(sent_alerts_cache, storeExists, store)
    /\ loadOk' = TRUE
    /\ pc' = "construct"
    /\ UNCHANGED <<store, storeExists, now, peer, probe, telegram, daily_summary_sent_key,
                   new_filings, big_moves, alerts_sent_this_run, sendResult,
                   saveOk, ioFailures, sentLog, resent, savedSet, prevStore,
                   listed, crossed>>

\* line 453 when open() or a read raises: the lines read before the failure
\* have been added, the exception is caught
LoadSentAlertsFails ==
    /\ pc = "idle"
    /\ runs < MaxRuns
    /\ ioFailures < MaxIoFailures
    /\ storeExists
    /\ runs' = runs + 1
    /\ \E n \in 0..NumLines(store) :
         /\ n = 0 \/ n < NumLines(store)
         /\ sent_alerts_cache' = sent_alerts_cache \cup LoadedKeys(store, n)
    /\ ioFailures' = ioFailures + 1
    /\ loadOk' = FALSE
    /\ pc' = "construct"
    /\ UNCHANGED <<store, storeExists, now, peer, probe, telegram, daily_summary_sent_key,
                   new_filings, big_moves, alerts_sent_this_run, sendResult,
                   saveOk, sentLog, resent, savedSet, prevStore, listed,
                   crossed>>

\* VIPInvestBot.__init__, lines 127-131: the credentials and today's
\* summary key are read once, at the clock of the run
Construct ==
    /\ pc = "construct"
    /\ \E t \in Instants :
         /\ NotBefore(t, now)
         /\ now' = t
         /\ daily_summary_sent_key' = SummaryKey(t)
    /\ telegram' \in BOOLEAN
    /\ UNCHANGED <<probe, peer>>
    /\ pc' = "scan_filings"
    /\ UNCHANGED <<store, storeExists, sent_alerts_cache, new_filings,
                   big_moves, alerts_sent_this_run, sendResult, saveOk, loadOk, runs,
                   ioFailures, sentLog, resent, savedSet, prevStore, listed,
                   crossed>>

\* run_vip_monitoring, line 426
CheckFilings ==
    /\ pc = "scan_filings"
    /\ \E answers \in [1..Len(vip_traders) -> SecResponses] :
         /\ new_filings' = check_vip_filings(answers, now)
         /\ listed' = Listed(answers, now)
    /\ pc' = "deliver_filings"
    /\ UNCHANGED <<store, storeExists, sent_alerts_cache, now, peer, probe, telegram,
                   daily_summary_sent_key, big_moves, alerts_sent_this_run,
                   sendResult, saveOk, loadOk, runs, ioFailures, sentLog, resent,
                   savedSet, prevStore, crossed>>

\* a filing stage that leaves its batch for later
DeliverFilingsPutOff ==
    /\ pc = "deliver_filings"
    /\ listed' = {}
    /\ pc' = "scan_prices"
    /\ UNCHANGED <<store, storeExists, sent_alerts_cache, now, peer, probe, telegram,
                   daily_summary_sent_key, new_filings, big_moves,
                   alerts_sent_this_run, sendResult, saveOk, loadOk, runs,
                   ioFailures, sentLog, resent, savedSet, prevStore, crossed>>

\* a filing stage that returns when its delivery fails
DeliverFilingsReturningOnFailure ==
    /\ pc = "deliver_filings"
    /\ IF new_filings = <<>>
       THEN /\ pc' = "scan_prices"
            /\ UNCHANGED <<sent_alerts_cache, alerts_sent_this_run, sendResult,
                           sentLog, resent>>
       ELSE \E reply \in TelegramReplies :
              IF Delivered(telegram, reply)
              THEN /\ sent_alerts_cache' = MarkAll(sent_alerts_cache, new_filings)
                   /\ alerts_sent_this_run' =
                        IncrementAlerts(alerts_sent_this_run, new_filings)
                   /\ sendResult' = [sendResult EXCEPT !.filings = "ok"]
                   /\ sentLog' = sentLog \cup FilingEntries(new_filings)
                   /\ resent' = resent \cup (FilingEntries(new_filings) \cap sentLog)
                   /\ pc' = "scan_prices"
              ELSE /\ sendResult' = [sendResult EXCEPT !.filings = "fail"]
                   /\ pc' = "save"
                   /\ UNCHANGED <<sent_alerts_cache, alerts_sent_this_run,
                                  sentLog, resent>>
    /\ listed' = {}
    /\ UNCHANGED <<store, storeExists, now, peer, probe, telegram,
                   daily_summary_sent_key, new_filings, big_moves, saveOk,
                   loadOk, runs, ioFailures, savedSet, prevStore, crossed>>

\* run_vip_monitoring, lines 427-431
DeliverFilings ==
    /\ pc = "deliver_filings"
    /\ IF new_filings = <<>>
       THEN UNCHANGED <<sent_alerts_cache, alerts_sent_this_run, sendResult,
                        sentLog, resent>>
       ELSE \E reply \in TelegramReplies :
              /\ IF send_telegram_alert(telegram, reply)
                 THEN /\ sent_alerts_cache' = MarkAll(sent_alerts_cache, new_filings)
                      /\ alerts_sent_this_run' =
                           IncrementAlerts(alerts_sent_this_run, new_filings)
                 ELSE UNCHANGED <<sent_alerts_cache, alerts_sent_this_run>>
              /\ IF Delivered(telegram, reply)
                 THEN /\ sendResult' = [sendResult EXCEPT !.filings = "ok"]
                      /\ sentLog' = sentLog \cup FilingEntries(new_filings)
                      /\ resent' = resent \cup (FilingEntries(new_filings) \cap sentLog)
                 ELSE /\ sendResult' = [sendResult EXCEPT !.filings = "fail"]
                      /\ UNCHANGED <<sentLog, resent>>
    /\ listed' = {}
    /\ pc' = "scan_prices"
    /\ UNCHANGED <<store, storeExists, now, peer, probe, telegram, daily_summary_sent_key,
                   new_filings, big_moves, saveOk, loadOk, runs, ioFailures, savedSet,
                   prevStore, crossed>>

\* run_vip_monitoring, line 434
CheckPrices ==
    /\ pc = "scan_prices"
    /\ \E key \in BOOLEAN, client \in BOOLEAN,
          quotes \in [1..Len(major_tickers) -> Quotes] :
         /\ big_moves' = check_major_price_moves(key, client, quotes, now)
         /\ crossed' = Crossed(key, client, quotes, now)
         /\ probe' = [key |-> key, client |-> client]
    /\ pc' = "deliver_prices"
    /\ UNCHANGED <<store, storeExists, sent_alerts_cache, now, peer, telegram,
                   daily_summary_sent_key, new_filings, alerts_sent_this_run,
                   sendResult, saveOk, loadOk, runs, ioFailures, sentLog, resent,
                   savedSet, prevStore, listed>>

\* run_vip_monitoring, lines 435-442; format_price_movement_alert sorts the
\* list it is given
DeliverPrices ==
    /\ pc = "deliver_prices"
    /\ IF big_moves = <<>>
       THEN UNCHANGED <<sent_alerts_cache, big_moves, alerts_sent_this_run,
                        sendResult, sentLog, resent>>
       ELSE \E reply \in TelegramReplies :
              /\ big_moves' = SortMoves(big_moves)
              /\ IF send_telegram_alert(telegram, reply)
                 THEN /\ sent_alerts_cache' = MarkAll(sent_alerts_cache, big_moves')
                      /\ alerts_sent_this_run' =
                           IncrementAlerts(alerts_sent_this_run, big_moves')
                 ELSE UNCHANGED <<sent_alerts_cache, alerts_sent_this_run>>
              /\ IF Delivered(telegram, reply)
                 THEN /\ sendResult' = [sendResult EXCEPT !.prices = "ok"]
                      /\ sentLog' = sentLog \cup PriceEntries(big_moves, now)
                      /\ resent' = resent \cup (PriceEntries(big_moves, now) \cap sentLog)
                 ELSE /\ sendResult' = [sendResult EXCEPT !.prices = "fail"]
                      /\ UNCHANGED <<sentLog, resent>>
    /\ crossed' = {}
    /\ pc' = "summary"
    /\ UNCHANGED <<store, storeExists, now, peer, probe, telegram, daily_summary_sent_key,
                   new_filings, saveOk, loadOk, runs, ioFailures, savedSet, prevStore,
                   listed>>

\* a summary that is due at every end of day
SummaryDueAtEndOfDay == is_end_of_trading_day(now)

\* whether send_daily_summary, lines 405-409, goes on to send
SummaryDue ==
    /\ ~has_alert_been_sent(daily_summary_sent_key)
    /\ is_end_of_trading_day(now)

\* run_vip_monitoring, lines 444-448, with send_daily_summary
DailySummary ==
    /\ pc = "summary"
    /\ IF NoAlertsSent(alerts_sent_this_run) /\ SummaryDue
       THEN \E reply \in TelegramReplies :
              /\ IF send_telegram_alert(telegram, reply)
                 THEN sent_alerts_cache' =
                        mark_alert_as_sent(sent_alerts_cache, daily_summary_sent_key)
                 ELSE UNCHANGED sent_alerts_cache
              /\ IF Delivered(telegram, reply)
                 THEN /\ sendResult' = [sendResult EXCEPT !.summary = "ok"]
                      /\ sentLog' = sentLog \cup {SummaryEntry(now)}
                      /\ resent' = resent \cup ({SummaryEntry(now)} \cap sentLog)
                 ELSE /\ sendResult' = [sendResult EXCEPT !.summary = "fail"]
                      /\ UNCHANGED <<sentLog, resent>>
       ELSE UNCHANGED <<sent_alerts_cache, sendResult, sentLog, resent>>
    /\ probe' = <<>>
    /\ pc' = "save"
    /\ UNCHANGED <<store, storeExists, now, peer, telegram, daily_summary_sent_key,
                   new_filings, big_moves, alerts_sent_this_run, saveOk, loadOk, runs,
                   ioFailures, savedSet, prevStore, listed, crossed>>

\* a save that keeps what the file holds
SaveMerging ==
    /\ pc = "save"
    /\ store' = SavedText(sent_alerts_cache \cup
                            (IF storeExists
                             THEN LoadedKeys(store, NumLines(store)) ELSE {}))
    /\ storeExists' = TRUE
    /\ saveOk' = TRUE
    /\ UNCHANGED loadOk
    /\ savedSet' = sent_alerts_cache
    /\ prevStore' = store
    /\ pc' = "exit"
    /\ UNCHANGED <<sent_alerts_cache, now, peer, probe, telegram,
                   daily_summary_sent_key, new_filings, big_moves,
                   alerts_sent_this_run, sendResult, runs, ioFailures,
                   sentLog, resent, listed, crossed>>

\* save_sent_alerts, lines 33-41, writing the whole file
SaveSentAlerts ==
    /\ pc = "save"
    /\ store' = SavedText(sent_alerts_cache)
    /\ storeExists' = TRUE
    /\ saveOk' = TRUE
    /\ UNCHANGED loadOk
    /\ savedSet' = sent_alerts_cache
    /\ prevStore' = store
    /\ pc' = "exit"
    /\ UNCHANGED <<sent_alerts_cache, now, peer, probe, telegram, daily_summary_sent_key,
                   new_filings, big_moves, alerts_sent_this_run, sendResult,
                   runs, ioFailures, sentLog, resent, listed, crossed>>

\* save_sent_alerts when open() raises (the file is left as it was) or a
\* write raises (the file was truncated and holds the keys written so far);
\* the exception is caught
SaveSentAlertsFails ==
    /\ pc = "save"
    /\ ioFailures < MaxIoFailures
    /\ \/ UNCHANGED <<store, storeExists>>
       \/ \E n \in 0..(Cardinality(sent_alerts_cache) - 1) :
            /\ store' = SavedText(Range(SubSeq(Sorted(sent_alerts_cache), 1, n)))
            /\ storeExists' = TRUE
    /\ saveOk' = FALSE
    /\ UNCHANGED loadOk
    /\ ioFailures' = ioFailures + 1
    /\ savedSet' = sent_alerts_cache
    /\ prevStore' = store
    /\ pc' = "exit"
    /\ UNCHANGED <<sent_alerts_cache, now, peer, probe, telegram, daily_summary_sent_key,
                   new_filings, big_moves, alerts_sent_this_run, sendResult,
                   runs, sentLog, resent, listed, crossed>>

\* the process ends: its memory is gone, the file and the clock stay
Exit ==
    /\ pc = "exit"
    /\ sent_alerts_cache' = {}
    /\ telegram' = FALSE
    /\ daily_summary_sent_key' = <<>>
    /\ new_filings' = <<>>
    /\ big_moves' = <<>>
    /\ alerts_sent_this_run' = 0
    /\ sendResult' = NoSends
    /\ saveOk' = TRUE
    /\ loadOk' = TRUE
    /\ savedSet' = {}
    /\ prevStore' = <<>>
    /\ pc' = "idle"
    /\ UNCHANGED <<store, storeExists, now, peer, probe, runs, ioFailures, sentLog, resent,
                   listed, crossed>>

Next ==
    \/ LoadSentAlerts
    \/ LoadSentAlertsFails
    \/ Construct
    \/ CheckFilings
    \/ DeliverFilings
    \/ CheckPrices
    \/ DeliverPrices
    \/ DailySummary
    \/ SaveSentAlerts
    \/ SaveSentAlertsFails
    \/ Exit

Spec == Init /\ [][Next]_vars

----------------------------------------------------------------------------
(* One pass of run_vip_monitoring on its own, from a ledger as loaded to   *)
(* the return of line 448                                                  *)

\* the ledgers a pass may start with: identities of a filing, of a price
\* move of this hour and of today's summary
PassLedgers(t) ==
    SUBSET {FilingKey("1067983", <<"0">>), PriceKey("AAPL", t), SummaryKey(t)}

InitPass ==
    /\ store = <<>>
    /\ storeExists = FALSE
    /\ now \in Instants
    /\ sent_alerts_cache \in PassLedgers(now)
    /\ daily_summary_sent_key = SummaryKey(now)
    /\ telegram \in BOOLEAN
    /\ pc = "scan_filings"
    /\ new_filings = <<>>
    /\ big_moves = <<>>
    /\ alerts_sent_this_run = 0
    /\ sendResult = NoSends
    /\ saveOk = TRUE
    /\ loadOk = TRUE
    /\ runs = 1
    /\ ioFailures = 0
    /\ sentLog = {}
    /\ resent = {}
    /\ savedSet = {}
    /\ probe = <<>>
    /\ prevStore = <<>>
    /\ listed = {}
    /\ crossed = {}
    /\ peer = <<>>

NextPass ==
    \/ CheckFilings
    \/ DeliverFilings
    \/ CheckPrices
    \/ DeliverPrices
    \/ DailySummary

\* the statements of a pass follow one another, and each ends: the requests
\* have timeouts and the sleeps are finite
SpecPass == InitPass /\ [][NextPass]_vars /\ WF_vars(NextPass)

----------------------------------------------------------------------------
(* Two processes of __main__ against the same file. Each has its own      *)
(* memory; the file, the clock and the channel are shared. A pass does not *)
(* touch the file, so the processes take turns between load_sent_alerts,   *)
(* the pass and save_sent_alerts.                                          *)

\* the memory of the process that is running
Memory ==
    [sent_alerts_cache |-> sent_alerts_cache, pc |-> pc, telegram |-> telegram,
     daily_summary_sent_key |-> daily_summary_sent_key,
     new_filings |-> new_filings, big_moves |-> big_moves,
     alerts_sent_this_run |-> alerts_sent_this_run, sendResult |-> sendResult,
     saveOk |-> saveOk, loadOk |-> loadOk, savedSet |-> savedSet,
     prevStore |-> prevStore]

\* where one process may stop and the other go on
TurnPoints == {"construct", "save", "exit"}

\* the runs examined: both processes run in the same hour, the filings
\* source lists one recent filing and the quote source one move
SameHour ==
    /\ now = [day |-> 0, hm |-> 10 * 60, sec |-> 0]
    /\ Keys(new_filings) \subseteq {FilingKey("1067983", <<"0">>)}
    /\ Len(new_filings) <= 1
    /\ \A i \in 1..Len(big_moves) :
         big_moves[i].ticker = "AAPL" /\ big_moves[i].change_pct = 40000

\* neither process has started
InitTwo ==
    /\ store = <<>>
    /\ storeExists = FALSE
    /\ sent_alerts_cache = {}
    /\ pc = "idle"
    /\ now = [day |-> 0, hm |-> 10 * 60, sec |-> 0]
    /\ telegram = FALSE
    /\ daily_summary_sent_key = <<>>
    /\ new_filings = <<>>
    /\ big_moves = <<>>
    /\ alerts_sent_this_run = 0
    /\ sendResult = NoSends
    /\ saveOk = TRUE
    /\ loadOk = TRUE
    /\ runs = 0
    /\ ioFailures = 0
    /\ sentLog = {}
    /\ resent = {}
    /\ savedSet = {}
    /\ probe = <<>>
    /\ prevStore = <<>>
    /\ listed = {}
    /\ crossed = {}
    /\ peer = Memory

\* the other process goes on
Switch ==
    /\ pc \in TurnPoints
    /\ peer' = Memory
    /\ sent_alerts_cache' = peer.sent_alerts_cache
    /\ pc' = peer.pc
    /\ telegram' = peer.telegram
    /\ daily_summary_sent_key' = peer.daily_summary_sent_key
    /\ new_filings' = peer.new_filings
    /\ big_moves' = peer.big_moves
    /\ alerts_sent_this_run' = peer.alerts_sent_this_run
    /\ sendResult' = peer.sendResult
    /\ saveOk' = peer.saveOk
    /\ loadOk' = peer.loadOk
    /\ savedSet' = peer.savedSet
    /\ prevStore' = peer.prevStore
    /\ UNCHANGED <<store, storeExists, now, runs, ioFailures, sentLog, resent,
                   listed, crossed, probe>>

NextTwo ==
    \/ Next /\ SameHour'
    \/ Switch

SpecTwo == InitTwo /\ [][NextTwo]_vars

----------------------------------------------------------------------------
(* The ledger on its own: keys are marked, the ledger is saved, and a new *)
(* process loads it                                                        *)

LedgerAlphabet == {"0", "a", SP, NL}

LedgerKeys == UNION {[1..n -> LedgerAlphabet] : n \in 0..MaxKeyLen}

InitLedger ==
    /\ store \in {<<>>, <<"0", NL>>}
    /\ storeExists = (store # <<>>)
    /\ sent_alerts_cache = {}
    /\ pc = "L_mark"
    /\ now = [day |-> 0, hm |-> 10 * 60, sec |-> 0]
    /\ telegram = FALSE
    /\ daily_summary_sent_key = <<>>
    /\ new_filings = <<>>
    /\ big_moves = <<>>
    /\ alerts_sent_this_run = 0
    /\ sendResult = NoSends
    /\ saveOk = TRUE
    /\ loadOk = TRUE
    /\ runs = 0
    /\ ioFailures = 0
    /\ sentLog = {}
    /\ resent = {}
    /\ savedSet = {}
    /\ probe = <<>>
    /\ prevStore = <<>>
    /\ listed = {}
    /\ crossed = {}
    /\ peer = <<>>

LedgerFrame ==
    UNCHANGED <<now, peer, probe, telegram, daily_summary_sent_key, new_filings, big_moves,
                alerts_sent_this_run, sendResult, saveOk, loadOk, runs, ioFailures,
                sentLog, resent, listed, crossed>>

LedgerMark ==
    /\ pc = "L_mark"
    /\ Cardinality(sent_alerts_cache) < MaxKeys
    /\ \E k \in LedgerKeys :
         sent_alerts_cache' = mark_alert_as_sent(sent_alerts_cache, k)
    /\ UNCHANGED <<store, storeExists, pc, savedSet, prevStore>>
    /\ LedgerFrame

LedgerSave ==
    /\ pc = "L_mark"
    /\ store' = SavedText(sent_alerts_cache)
    /\ storeExists' = TRUE
    /\ savedSet' = sent_alerts_cache
    /\ prevStore' = store
    /\ pc' = "L_saved"
    /\ UNCHANGED sent_alerts_cache
    /\ LedgerFrame

LedgerLoad ==
    /\ pc = "L_saved"
    /\ sent_alerts_cache' = load_sent_alerts({}, storeExists, store)
    /\ pc' = "L_loaded"
    /\ UNCHANGED <<store, storeExists, savedSet, prevStore>>
    /\ LedgerFrame

NextLedger == LedgerMark \/ LedgerSave \/ LedgerLoad

SpecLedger == InitLedger /\ [][NextLedger]_vars

----------------------------------------------------------------------------
(* The session clock and the thresholds on their own: an instant and a    *)
(* symbol are given, and the functions are applied                        *)

\* the minutes around the boundaries of the sessions and of the summary
\* window
MarketMinutes ==
    {0, 239, 240, 569, 570, 959, 960, 989, 990, 1005, 1019, 1020, 1021, 1199,
     1200, 1439}

\* Thursday 2025-01-16 and the days after it, with a weekend and the
\* holiday of Monday 2025-01-20
MarketInstants ==
    {[day |-> d, hm |-> m, sec |-> x] :
        d \in 0..MaxMarketDay, m \in MarketMinutes, x \in {0, 30}}

\* a symbol of each class: stable, volatile, neither
MarketTickers == {"AAPL", "TSLA", "META"}

InitMarket ==
    /\ store = <<>>
    /\ storeExists = FALSE
    /\ sent_alerts_cache = {}
    /\ pc = "M_input"
    /\ now \in MarketInstants
    /\ telegram = FALSE
    /\ daily_summary_sent_key = <<>>
    /\ new_filings = <<>>
    /\ big_moves = <<>>
    /\ alerts_sent_this_run = 0
    /\ sendResult = NoSends
    /\ saveOk = TRUE
    /\ loadOk = TRUE
    /\ runs = 0
    /\ ioFailures = 0
    /\ sentLog = {}
    /\ resent = {}
    /\ savedSet = {}
    /\ prevStore = <<>>
    /\ listed = {}
    /\ crossed = {}
    /\ peer = <<>>
    /\ probe \in {[ticker |-> ticker] : ticker \in MarketTickers}

MarketApply ==
    /\ pc = "M_input"
    /\ probe' = [ticker |-> probe.ticker,
                 session |-> get_market_session(now),
                 threshold |-> get_alert_threshold(probe.ticker, now),
                 end_of_trading_day |-> is_end_of_trading_day(now)]
    /\ pc' = "M_done"
    /\ UNCHANGED <<store, storeExists, sent_alerts_cache, now, peer, telegram,
                   daily_summary_sent_key, new_filings, big_moves,
                   alerts_sent_this_run, sendResult, saveOk, loadOk, runs,
                   ioFailures, sentLog, resent, savedSet, prevStore, listed,
                   crossed>>

NextMarket == MarketApply

SpecMarket == InitMarket /\ [][NextMarket]_vars

----------------------------------------------------------------------------
(* The scanners on their own: a ledger, a clock and the answers of a      *)
(* source are given, and one scanner is applied                           *)

\* a trading day in the regular session and after hours, the next day, and
\* a Saturday
ScanInstants ==
    { [day |-> 0, hm |-> 10 * 60, sec |-> 0],
      [day |-> 0, hm |-> 16 * 60 + 45, sec |-> 0],
      [day |-> 1, hm |-> 10 * 60, sec |-> 0],
      [day |-> 2, hm |-> 10 * 60, sec |-> 0] }

\* the ledgers of a scan: identities of filings and of price moves of this
\* hour and of another
ScanLedgers(t) ==
    SUBSET { FilingKey("1067983", <<"0">>), FilingKey("1067983", <<"1">>),
             PriceKey("AAPL", t), PriceKey("TSLA", t),
             PriceKey("AAPL", [t EXCEPT !.hm = 26 * 60 + 45 - t.hm]) }

ScanResponses ==
    { [raises |-> TRUE, status_code |-> 0, recent |-> <<>>],
      [raises |-> FALSE, status_code |-> 404, recent |-> <<>>] } \cup
    { [raises |-> FALSE, status_code |-> 200, recent |-> r] :
        r \in UNION {[1..n -> SecFilings] : n \in 0..MaxScanFilings} }

\* the quotes of a scan: those of Quotes, an answer without the current
\* price, a negative previous close, and moves of exactly 6.0 and 3.85
\* percent
ScanQuotes ==
    Quotes \cup
    { [raises |-> FALSE, has_c |-> FALSE, has_pc |-> TRUE, c |-> 0, pc |-> 100],
      [raises |-> FALSE, has_c |-> TRUE, has_pc |-> TRUE, c |-> 104, pc |-> -100],
      [raises |-> FALSE, has_c |-> TRUE, has_pc |-> TRUE, c |-> 106, pc |-> 100],
      [raises |-> FALSE, has_c |-> TRUE, has_pc |-> TRUE, c |-> 2077, pc |-> 2000] }

InitScan ==
    /\ store = <<>>
    /\ storeExists = FALSE
    /\ now \in ScanInstants
    /\ sent_alerts_cache \in ScanLedgers(now)
    /\ \/ /\ pc = "S_filings"
          /\ probe \in {[answers |-> a] :
                          a \in [1..Len(vip_traders) -> ScanResponses]}
       \/ /\ pc = "S_prices"
          /\ probe \in {[key |-> k, client |-> c, quotes |-> q] :
                          k \in BOOLEAN, c \in BOOLEAN,
                          q \in [1..Len(major_tickers) -> ScanQuotes]}
          /\ probe.key \/ ~probe.client
    /\ telegram = FALSE
    /\ daily_summary_sent_key = <<>>
    /\ new_filings = <<>>
    /\ big_moves = <<>>
    /\ alerts_sent_this_run = 0
    /\ sendResult = NoSends
    /\ saveOk = TRUE
    /\ loadOk = TRUE
    /\ runs = 0
    /\ ioFailures = 0
    /\ sentLog = {}
    /\ resent = {}
    /\ savedSet = {}
    /\ prevStore = <<>>
    /\ listed = {}
    /\ crossed = {}
    /\ peer = <<>>

ScanFrame ==
    UNCHANGED <<store, storeExists, sent_alerts_cache, now, peer, telegram,
                daily_summary_sent_key, alerts_sent_this_run, sendResult,
                saveOk, loadOk, runs, ioFailures, sentLog, resent, savedSet,
                prevStore, listed, crossed, probe>>

ScanFilingsApply ==
    /\ pc = "S_filings"
    /\ new_filings' = check_vip_filings(probe.answers, now)
    /\ pc' = "S_filed"
    /\ UNCHANGED big_moves
    /\ ScanFrame

ScanPricesApply ==
    /\ pc = "S_prices"
    /\ big_moves' = check_major_price_moves(probe.key, probe.client,
                                            probe.quotes, now)
    /\ pc' = "S_priced"
    /\ UNCHANGED new_filings
    /\ ScanFrame

NextScan == ScanFilingsApply \/ ScanPricesApply

SpecScan == InitScan /\ [][NextScan]_vars

----------------------------------------------------------------------------
(* The formatters on their own: a list as a scanner returns it is given,   *)
(* and one formatter is applied                                            *)

\* a trading day in the regular session, and a Saturday
FormatInstants ==
    { [day |-> 0, hm |-> 10 * 60, sec |-> 0],
      [day |-> 2, hm |-> 10 * 60, sec |-> 0] }

\* quotes with moves of 3, 4, 5, -5, 9.9, 10, -10, 12 and -12 percent
FormatQuotes ==
    { [raises |-> FALSE, has_c |-> TRUE, has_pc |-> TRUE, c |-> q[1], pc |-> q[2]] :
        q \in { <<103, 100>>, <<104, 100>>, <<105, 100>>, <<95, 100>>,
                <<1099, 1000>>, <<110, 100>>, <<90, 100>>, <<112, 100>>,
                <<88, 100>> } }

InitFormat ==
    /\ store = <<>>
    /\ storeExists = FALSE
    /\ now \in FormatInstants
    /\ sent_alerts_cache \in {{}, {FilingKey("1067983", <<"1">>)}}
    /\ \/ /\ pc = "F_filings"
          /\ new_filings \in
                { check_vip_filings(a, now) :
                    a \in [1..Len(vip_traders) -> ScanResponses] }
          /\ big_moves = <<>>
       \/ /\ pc = "F_prices"
          /\ new_filings = <<>>
          /\ big_moves \in
                { check_major_price_moves(TRUE, TRUE, q, now) :
                    q \in [1..Len(major_tickers) -> FormatQuotes] }
    /\ probe = <<>>
    /\ telegram = FALSE
    /\ daily_summary_sent_key = <<>>
    /\ alerts_sent_this_run = 0
    /\ sendResult = NoSends
    /\ saveOk = TRUE
    /\ loadOk = TRUE
    /\ runs = 0
    /\ ioFailures = 0
    /\ sentLog = {}
    /\ resent = {}
    /\ savedSet = {}
    /\ prevStore = <<>>
    /\ listed = {}
    /\ crossed = {}
    /\ peer = <<>>

FormatFrame ==
    UNCHANGED <<store, storeExists, sent_alerts_cache, now, peer, telegram,
                daily_summary_sent_key, alerts_sent_this_run, sendResult,
                saveOk, loadOk, runs, ioFailures, sentLog, resent, savedSet,
                prevStore, listed, crossed>>

\* a call of format_vip_filing_alert: the list is read, not changed
FormatFilingsApply ==
    /\ pc = "F_filings"
    /\ probe' = [given |-> new_filings,
                 message |-> format_vip_filing_alert(new_filings)]
    /\ pc' = "F_filed"
    /\ UNCHANGED <<new_filings, big_moves>>
    /\ FormatFrame

\* a call of format_price_movement_alert, lines 435-436: line 392 sorts the
\* caller's list; the urgency of lines 438-439 is taken from the list after
\* the call
FormatPricesApply ==
    /\ pc = "F_prices"
    /\ probe' = [given |-> big_moves,
                 message |-> format_price_movement_alert(big_moves),
                 urgency |-> IF big_moves = <<>> THEN ""
                             ELSE Urgency(SortMoves(big_moves))]
    /\ big_moves' = SortMoves(big_moves)
    /\ pc' = "F_priced"
    /\ UNCHANGED new_filings
    /\ FormatFrame

NextFormat == FormatFilingsApply \/ FormatPricesApply

SpecFormat == InitFormat /\ [][NextFormat]_vars

----------------------------------------------------------------------------
(* Claims *)

InPass == pc \in {"deliver_filings", "scan_prices", "deliver_prices",
                  "summary", "save", "exit"}

OkCount(kind) == IF sendResult[kind] = "ok" THEN 1 ELSE 0

FailedKeys ==
    (IF sendResult.filings = "fail" THEN Keys(new_filings) ELSE {}) \cup
    (IF sendResult.prices = "fail" THEN Keys(big_moves) ELSE {}) \cup
    (IF sendResult.summary = "fail" THEN {daily_summary_sent_key} ELSE {})

\* C1: when a scanner returns, no event of the list it returns has an alert
\* identity that is in the ledger
C1_ScannersNeverReemit ==
    /\ pc = "deliver_filings" =>
         \A i \in 1..Len(new_filings) :
            new_filings[i].alert_key \notin sent_alerts_cache
    /\ pc = "deliver_prices" =>
         \A i \in 1..Len(big_moves) :
            big_moves[i].alert_key \notin sent_alerts_cache

\* a later run whose ledger already holds a filing identity, and whose scan
\* still returns another filing
C1_Witness ==
    /\ pc = "deliver_filings"
    /\ new_filings # <<>>
    /\ \E k \in sent_alerts_cache : Len(k) > 0 /\ k[1] = "file-"

\* C2: once a filing has been delivered, marked and saved, a later run that
\* loads the store returns no event for that filing again
C2_DeliveredFilingNotReturnedAgain ==
    (pc = "deliver_filings" /\ ioFailures = 0) =>
        FilingEntries(new_filings) \cap sentLog = {}

\* a second run on the day of a delivered filing: the source serves the
\* filing again, and the scan returns nothing
C2_Witness ==
    /\ pc = "deliver_filings"
    /\ runs = 2
    /\ ioFailures = 0
    /\ now.day = 0
    /\ <<"1067983", "0">> \in listed
    /\ [kind |-> "file", who |-> <<"1067983", "0">>, day |-> 0, hour |-> 0]
          \in sentLog
    /\ new_filings = <<>>

\* C3: a batch (filings, prices or the summary) whose delivery failed has
\* none of its identities in the ledger during the pass, the counter counts
\* no failed batch, the ledger a next run loads from the saved store holds
\* none of them either, and a scan returns an event for every filing and
\* every move it is served whose identity is not in the ledger
C3_FailedDeliveryNotMarked ==
    /\ FailedKeys \cap sent_alerts_cache = {}
    /\ alerts_sent_this_run <= OkCount("filings") + OkCount("prices")
    /\ (pc = "exit" /\ saveOk) =>
          FailedKeys \cap load_sent_alerts({}, storeExists, store) = {}
    /\ pc = "deliver_filings" =>
          \A x \in listed :
             FilingKey(x[1], Tail(x)) \notin sent_alerts_cache =>
                FilingKey(x[1], Tail(x)) \in Keys(new_filings)
    /\ pc = "deliver_prices" =>
          \A ticker \in crossed :
             PriceKey(ticker, now) \notin sent_alerts_cache =>
                PriceKey(ticker, now) \in Keys(big_moves)

\* a pass with credentials whose filing batch failed and whose price batch
\* was delivered, saved
C3_Witness ==
    /\ pc = "exit"
    /\ saveOk
    /\ telegram
    /\ sendResult.filings = "fail"
    /\ sendResult.prices = "ok"

\* C4: after a successful delivery every identity of the batch is in the
\* ledger for the rest of the pass, and a batch is never marked in part
C4_BatchMarkedAllOrNothing ==
    /\ sendResult.filings = "ok" => Keys(new_filings) \subseteq sent_alerts_cache
    /\ sendResult.prices = "ok" => Keys(big_moves) \subseteq sent_alerts_cache
    /\ \/ Keys(new_filings) \subseteq sent_alerts_cache
       \/ Keys(new_filings) \cap sent_alerts_cache = {}
    /\ \/ Keys(big_moves) \subseteq sent_alerts_cache
       \/ Keys(big_moves) \cap sent_alerts_cache = {}

\* the end of a pass that delivered a filing batch of two identities and a
\* price batch of two
C4_Witness ==
    /\ pc = "exit"
    /\ sendResult.filings = "ok"
    /\ sendResult.prices = "ok"
    /\ Cardinality(Keys(new_filings)) = 2
    /\ Cardinality(Keys(big_moves)) = 2

\* C5: the summary step attempts a delivery only if no batch was sent in the
\* pass, it is the end of the trading day and today's summary identity is
\* not in the ledger; the step adds the summary identity to the ledger if
\* and only if that delivery succeeds
C5_SummaryOnlyWhenDue ==
    [][ pc = "summary" =>
          /\ sendResult'.summary # "none" =>
                /\ alerts_sent_this_run = 0
                /\ is_end_of_trading_day(now)
                /\ daily_summary_sent_key \notin sent_alerts_cache
          /\ (sent_alerts_cache' # sent_alerts_cache) <=>
                (sendResult'.summary = "ok")
          /\ sent_alerts_cache' \subseteq
                sent_alerts_cache \cup {daily_summary_sent_key} ]_vars

\* a summary was delivered and marked
C5_Witness ==
    /\ pc = "save"
    /\ sendResult.summary = "ok"
    /\ daily_summary_sent_key \in sent_alerts_cache

\* C6: while every load and save has succeeded, no day has had its summary
\* delivered twice
C6_SummaryAtMostOncePerDay ==
    ioFailures = 0 => \A r \in resent : r.kind # "summary"

\* a second run on a day whose summary was delivered: it is the end of the
\* trading day, nothing was sent, and no summary is sent again
C6_Witness ==
    /\ pc = "save"
    /\ runs = 2
    /\ ioFailures = 0
    /\ telegram
    /\ SummaryEntry(now) \in sentLog
    /\ is_end_of_trading_day(now)
    /\ alerts_sent_this_run = 0
    /\ sendResult.summary = "none"

\* C7: while every load and save has succeeded, no symbol has had a price
\* alert delivered twice in one clock hour
C7_PriceAlertAtMostOncePerHour ==
    ioFailures = 0 => \A r \in resent : r.kind # "price"

\* a second run in the hour of a delivered AAPL alert: the scan returns a
\* move of another symbol and none of AAPL
C7_Witness ==
    /\ pc = "deliver_prices"
    /\ runs = 2
    /\ ioFailures = 0
    /\ [kind |-> "price", who |-> <<"AAPL">>, day |-> now.day,
        hour |-> now.hm \div 60] \in sentLog
    /\ "AAPL" \in crossed
    /\ big_moves # <<>>
    /\ \A i \in 1..Len(big_moves) : big_moves[i].ticker # "AAPL"

\* C8: the value run_vip_monitoring returns is the number of filing and
\* price batches delivered in the pass, 0, 1 or 2; a delivered summary is
\* not counted
C8_ReturnsBatchCount ==
    pc \in {"save", "exit"} =>
        /\ alerts_sent_this_run = OkCount("filings") + OkCount("prices")
        /\ alerts_sent_this_run \in 0..2

\* a pass that delivered only the summary returns 0
C8_Witness ==
    /\ pc = "save"
    /\ sendResult.summary = "ok"
    /\ alerts_sent_this_run = 0

\* C9: for every set of identities, save followed by load into an empty
\* ledger yields the saved set
C9_RoundTrip ==
    pc = "L_loaded" => sent_alerts_cache = savedSet

\* an identity with no line break in it and no whitespace at either end
CleanKey(k) == k = Strip(k) /\ NL \notin Range(k)

\* C9, amended: for every set of identities that have no line break and no
\* leading or trailing whitespace, save followed by load into an empty
\* ledger yields the saved set
C9_RoundTripOfCleanKeys ==
    (pc = "L_loaded" /\ \A k \in savedSet : CleanKey(k)) =>
        sent_alerts_cache = savedSet

\* two identities of that kind saved over a file that held another, and
\* loaded
C9_Witness ==
    /\ pc = "L_loaded"
    /\ Cardinality(savedSet) = 2
    /\ \A k \in savedSet : CleanKey(k)
    /\ prevStore # <<>>

\* the lines of a text without their line ends
LinesOf(text) ==
    LET lines == FileLines(text, <<>>)
    IN  [i \in 1..Len(lines) |->
           IF lines[i][Len(lines[i])] = NL
           THEN SubSeq(lines[i], 1, Len(lines[i]) - 1) ELSE lines[i]]

\* the lines of the store are the identities of the ledger, each once, in
\* ascending order
StoreIsSortedSet ==
    LET lines == LinesOf(store)
    IN  /\ Len(lines) = Cardinality(sent_alerts_cache)
        /\ Range(lines) = sent_alerts_cache
        /\ \A i \in 1..(Len(lines) - 1) : StrLess(lines[i], lines[i + 1])

\* C10: after a save the lines of the store are the identities of the
\* in-memory set, each once, in ascending order, and nothing else
C10_StoreIsSortedSet ==
    pc = "L_saved" => StoreIsSortedSet

\* C10, amended: after a save of a set whose identities have no line break
\* in them, the lines of the store are the identities of the set, each once,
\* in ascending order, and nothing else
C10_StoreIsSortedSetOfLines ==
    (pc = "L_saved" /\ \A k \in sent_alerts_cache : NL \notin Range(k)) =>
        StoreIsSortedSet

\* two identities, one of them with a space, saved over a file whose line
\* is not in the set
C10_Witness ==
    /\ pc = "L_saved"
    /\ Cardinality(sent_alerts_cache) = 2
    /\ <<"a", SP>> \in sent_alerts_cache
    /\ \A k \in sent_alerts_cache : NL \notin Range(k)
    /\ prevStore = <<"0", NL>>
    /\ <<"0">> \notin sent_alerts_cache

\* C11: after a load that found no store, or that failed while reading it,
\* the in-memory ledger is empty
C11_FailedLoadLeavesLedgerEmpty ==
    (pc = "construct" /\ (~storeExists \/ ~loadOk)) => sent_alerts_cache = {}

\* C11, amended: a load that finds no store leaves the ledger empty; a load
\* that fails leaves in it the identities of the lines read before the
\* failure, none when the store could not be opened, never all of them; in
\* both cases the run goes on
C11_FailedLoadLeavesPrefix ==
    pc = "construct" =>
        /\ ~storeExists => sent_alerts_cache = {}
        /\ ~loadOk =>
              \E n \in 0..Len(LinesOf(store)) :
                 /\ n = 0 \/ n < Len(LinesOf(store))
                 /\ sent_alerts_cache = Range(SubSeq(LinesOf(store), 1, n))

\* a load that failed after its first line
C11_Witness ==
    /\ pc = "construct"
    /\ ~loadOk
    /\ sent_alerts_cache # {}

\* C12: no step of a run removes an identity from the in-memory ledger, a
\* scan (which only asks has) leaves it as it is, and marking an identity
\* that is in it leaves it as it is
C12_LedgerOnlyGrows ==
    [][/\ pc # "exit" => sent_alerts_cache \subseteq sent_alerts_cache'
       /\ pc \in {"scan_filings", "scan_prices"} =>
             sent_alerts_cache' = sent_alerts_cache
       /\ \A k \in sent_alerts_cache' :
             mark_alert_as_sent(sent_alerts_cache', k) = sent_alerts_cache']_vars

\* a second run that loaded a price identity and has marked a delivered
\* batch of two filing events with one identity
C12_Witness ==
    /\ pc = "scan_prices"
    /\ runs = 2
    /\ sendResult.filings = "ok"
    /\ Len(new_filings) = 2
    /\ new_filings[1].alert_key = new_filings[2].alert_key
    /\ \E k \in sent_alerts_cache : k[1] = "price-"

\* the time of day of the clock, in seconds
TimeOfDay == now.hm * 60 + now.sec

\* the clock shows a Saturday, a Sunday or a listed holiday
ClosedDay == now.day % 7 \in {2, 3} \/ now.day \in market_holidays

\* the thresholds of section 4.5 as the floats the products are: 3.5, 6.0
\* and 4.5 times 2.0, 1.3, 1.1 and 1.0
TableThreshold(ticker, session) ==
    LET class == IF ticker = "AAPL" THEN 1 ELSE IF ticker = "TSLA" THEN 2 ELSE 3
    IN  [closed      |-> <<70000, 120000, 90000>>,
         pre_market  |-> <<45500, 78001, 58501>>,
         after_hours |-> <<38501, 66001, 49500>>,
         regular     |-> <<35000, 60000, 45000>>][session][class]

\* the session the hours of the claim give the clock
TableSession ==
    IF ClosedDay THEN "closed"
    ELSE IF TimeOfDay < 4 * 3600 THEN "closed"
    ELSE IF TimeOfDay < 9 * 3600 + 1800 THEN "pre_market"
    ELSE IF TimeOfDay < 16 * 3600 THEN "regular"
    ELSE IF TimeOfDay < 20 * 3600 THEN "after_hours"
    ELSE "closed"

\* C15: for every class of symbol and every session, get_alert_threshold
\* returns the product of the base of the class and the multiplier of the
\* session the clock is in
C15_ThresholdIsBaseTimesMultiplier ==
    pc = "M_done" => probe.threshold = TableThreshold(probe.ticker, TableSession)

\* the stable class after hours: 3.5 * 1.1
C15_Witness ==
    /\ pc = "M_done"
    /\ probe.ticker = "AAPL"
    /\ probe.session = "after_hours"
    /\ probe.threshold = 38501

\* C16: get_market_session is closed on a weekend and on a listed holiday
\* at every time of day, and on the other days closed before 04:00,
\* pre_market from 04:00, regular from 09:30, after_hours from 16:00 and
\* closed from 20:00
C16_SessionByDayAndHour ==
    pc = "M_done" => probe.session = TableSession

\* the holiday of Monday 2025-01-20 at 09:30
C16_Witness ==
    /\ pc = "M_done"
    /\ now.day = 4
    /\ now.hm = 9 * 60 + 30
    /\ probe.session = "closed"

\* C17: is_end_of_trading_day is true exactly on a day that is neither a
\* weekend nor a listed holiday at a time of day from 16:30 to 17:00, both
\* included
C17_EndOfDayWindow ==
    pc = "M_done" =>
        (probe.end_of_trading_day <=>
            /\ ~ClosedDay
            /\ TimeOfDay >= 16 * 3600 + 1800
            /\ TimeOfDay <= 17 * 3600)

\* half a minute after 17:00 on a trading day
C17_Witness ==
    /\ pc = "M_done"
    /\ now.day = 0
    /\ now.hm = 17 * 60
    /\ now.sec = 30
    /\ ~probe.end_of_trading_day

\* the price scan was given its key and its client
PricesScanned == pc = "S_priced" /\ probe.key /\ probe.client

\* the events of the price scan for symbol j
EventsOf(j) ==
    {i \in 1..Len(big_moves) : big_moves[i].ticker = major_tickers[j]}

\* the quote of symbol j has both prices and a previous close over zero
Present(j) ==
    /\ ~probe.quotes[j].raises
    /\ probe.quotes[j].has_c
    /\ probe.quotes[j].has_pc
    /\ probe.quotes[j].pc > 0

\* the move of symbol j is at or over the threshold of its class in the
\* session of the clock, and its identity of this hour is not in the ledger
AtOrOverAndUnseen(j) ==
    /\ Abs(probe.quotes[j].c - probe.quotes[j].pc) * 1000000 >=
         TableThreshold(major_tickers[j], TableSession) * probe.quotes[j].pc
    /\ <<"price-", major_tickers[j], "-", DateStr(now.day), "-",
          HourStr(now.hm \div 60)>> \notin sent_alerts_cache

\* C13: for every symbol whose quote has both prices and a previous close
\* over zero, the price scan returns an event exactly when the move is at
\* or over the threshold and the identity of the hour is not in the ledger
C13_EventIffAtOrOverThreshold ==
    PricesScanned =>
        \A j \in 1..Len(major_tickers) :
           Present(j) => (EventsOf(j) # {} <=> AtOrOverAndUnseen(j))

\* C13, amended: the same for every symbol whose quote has both prices, a
\* current price other than zero and a previous close over zero, the move
\* and the threshold being compared as the floats they are; a quote with a
\* current price of zero gives no event
C13_EventIffAtOrOverThresholdNonZero ==
    PricesScanned =>
        \A j \in 1..Len(major_tickers) :
           Present(j) =>
              IF probe.quotes[j].c # 0 /\ AtOrOverAndUnseen(j)
              THEN Cardinality(EventsOf(j)) = 1
              ELSE EventsOf(j) = {}

\* the regular session: AAPL at 103 after 100 gives no event, TSLA at 106
\* after 100, a move of exactly 6.0 percent, gives one
C13_Witness ==
    /\ PricesScanned
    /\ now = [day |-> 0, hm |-> 10 * 60, sec |-> 0]
    /\ probe.quotes[1].c = 103 /\ probe.quotes[1].pc = 100
    /\ probe.quotes[1].has_c /\ probe.quotes[1].has_pc
    /\ probe.quotes[2].c = 106 /\ probe.quotes[2].pc = 100
    /\ Len(big_moves) = 1
    /\ big_moves[1].ticker = "TSLA"
    /\ big_moves[1].change_pct = big_moves[1].threshold

\* the quote of symbol j lacks a price or has a previous close of zero or
\* less
Unusable(j) ==
    /\ ~probe.quotes[j].raises
    /\ \/ ~probe.quotes[j].has_c
       \/ ~probe.quotes[j].has_pc
       \/ probe.quotes[j].pc <= 0

\* C14: a symbol whose quote lacks the current price or the previous close,
\* or has a previous close of zero or less, gives no event, and the scan
\* goes on: the other symbols give the events their quotes call for
C14_UnusableQuoteSkipped ==
    PricesScanned =>
        \A j \in 1..Len(major_tickers) :
           Unusable(j) =>
              /\ EventsOf(j) = {}
              /\ \A k \in 1..Len(major_tickers) \ {j} :
                    (Present(k) /\ probe.quotes[k].c # 0
                       /\ AtOrOverAndUnseen(k)) => EventsOf(k) # {}

\* AAPL comes with a previous close of zero, and TSLA after it with a move
\* of 12 percent
C14_Witness ==
    /\ PricesScanned
    /\ probe.quotes[1].has_c /\ probe.quotes[1].has_pc
    /\ probe.quotes[1].pc = 0
    /\ Len(big_moves) = 1
    /\ big_moves[1].ticker = "TSLA"

\* the fetch for trader i succeeded
Fetched(i) ==
    ~probe.answers[i].raises /\ probe.answers[i].status_code = 200

\* entry n of the answer for trader i has an allowed form, a date within
\* the last five days, and an identity that is not in the ledger
FilingDue(i, n) ==
    LET f == probe.answers[i].recent[n]
    IN  /\ f.form \in allowed_forms
        /\ f.filingDate >= now.day - 5
        /\ (<<"file-", vip_traders[i].cik, "-">> \o f.accessionNumber)
              \notin sent_alerts_cache

\* the events of the filing scan for entry n of the answer for trader i
EventsFor(i, n) ==
    LET f == probe.answers[i].recent[n]
    IN  {k \in 1..Len(new_filings) :
           /\ new_filings[k].trader = vip_traders[i].trader
           /\ new_filings[k].form = f.form
           /\ new_filings[k].date = f.filingDate
           /\ new_filings[k].accession_number = f.accessionNumber}

\* C18: for every trader whose fetch succeeds, the filing scan returns an
\* event for an entry exactly when its form is allowed, its date is on or
\* after today minus five days and its identity is not in the ledger, and
\* it returns no other event
C18_FilingEventIffDue ==
    pc = "S_filed" =>
        /\ \A i \in 1..Len(vip_traders) :
              Fetched(i) =>
                 \A n \in 1..Len(probe.answers[i].recent) :
                    EventsFor(i, n) # {} <=> FilingDue(i, n)
        /\ Len(new_filings) =
              Cardinality({q \in (1..Len(vip_traders)) \X (1..MaxScanFilings) :
                             /\ Fetched(q[1])
                             /\ q[2] <= Len(probe.answers[q[1]].recent)
                             /\ FilingDue(q[1], q[2])})

\* an 8-K dated five days ago and a 10-K dated today: the first gives the
\* one event of the scan
C18_Witness ==
    /\ pc = "S_filed"
    /\ now.day = 0
    /\ Fetched(1)
    /\ Len(probe.answers[1].recent) = 2
    /\ probe.answers[1].recent[1].form = "8-K"
    /\ probe.answers[1].recent[1].filingDate = -5
    /\ probe.answers[1].recent[2].form = "10-K"
    /\ ~Fetched(2)
    /\ Len(new_filings) = 1
    /\ new_filings[1].form = "8-K"

\* C19: a trader whose fetch fails and a symbol whose quote fails give no
\* event, and every other trader and symbol gives the events its own answer
\* calls for
C19_FailureSkipsOneOnly ==
    /\ pc = "S_filed" =>
          \A i \in 1..Len(vip_traders) :
             Cardinality({k \in 1..Len(new_filings) :
                            new_filings[k].trader = vip_traders[i].trader}) =
             IF Fetched(i)
             THEN Cardinality({n \in 1..Len(probe.answers[i].recent) :
                                 FilingDue(i, n)})
             ELSE 0
    /\ PricesScanned =>
          \A j \in 1..Len(major_tickers) :
             IF probe.quotes[j].raises THEN EventsOf(j) = {}
             ELSE (Present(j) /\ probe.quotes[j].c # 0
                     /\ AtOrOverAndUnseen(j)) => EventsOf(j) # {}

\* the fetch for the first trader raises, and the second trader's filing
\* of today is returned
C19_Witness ==
    /\ pc = "S_filed"
    /\ probe.answers[1].raises
    /\ Fetched(2)
    /\ Len(new_filings) = 1
    /\ new_filings[1].trader = "Charlie Munger"

\* C20: the stages of a pass follow one another whatever their outcome:
\* after the filing stage the price scan runs, after the price stage the
\* summary is decided, and the pass returns
C20_StagesAlwaysRun ==
    /\ [][/\ pc = "scan_filings" => pc' = "deliver_filings"
          /\ pc = "deliver_filings" => pc' = "scan_prices"
          /\ pc = "scan_prices" => pc' = "deliver_prices"
          /\ pc = "deliver_prices" => pc' = "summary"
          /\ pc = "summary" => pc' = "save"]_vars
    /\ (pc = "deliver_filings") ~> (pc = "deliver_prices")
    /\ (pc = "deliver_prices") ~> (pc = "save")
    /\ <>(pc = "save")

\* a pass whose filing delivery failed and whose price batch was delivered,
\* at its return
C20_Witness ==
    /\ pc = "save"
    /\ runs = 1
    /\ storeExists = FALSE
    /\ sendResult.filings = "fail"
    /\ sendResult.prices = "ok"

\* C21: a price scan without the credential or without a client returns the
\* empty list and leaves the ledger alone, and the rest of the pass is the
\* one of a scan without events: no price delivery, no marking, no count
C21_NoClientNoEvents ==
    [][/\ pc = "scan_prices" => sent_alerts_cache' = sent_alerts_cache
       /\ (pc = "scan_prices" /\ pc' = "deliver_prices"
             /\ ~(probe'.key /\ probe'.client))
            => big_moves' = <<>>
       /\ (pc = "deliver_prices" /\ ~(probe.key /\ probe.client))
            => /\ pc' = "summary"
               /\ big_moves' = <<>>
               /\ sent_alerts_cache' = sent_alerts_cache
               /\ alerts_sent_this_run' = alerts_sent_this_run
               /\ sendResult' = sendResult
               /\ sendResult.prices = "none"
               /\ sentLog' = sentLog]_vars

\* a pass at its summary decision after a price scan that had the key and
\* no client, with a delivered filing batch before it
C21_Witness ==
    /\ pc = "summary"
    /\ probe.key
    /\ ~probe.client
    /\ big_moves = <<>>
    /\ sendResult.filings = "ok"
    /\ sendResult.prices = "none"

\* C22 as stated: None for the empty list, and otherwise each rendered event
\* has a larger absolute change than the one after it
C22_StrictlyDescending ==
    pc = "F_priced" =>
      /\ probe.message.none <=> probe.given = <<>>
      /\ \A i \in 1..(Len(probe.message.blocks) - 1) :
            Abs(probe.message.blocks[i].change_pct) >
              Abs(probe.message.blocks[i + 1].change_pct)

\* C22: None for the empty list; otherwise the events given are rendered,
\* each once, none with a smaller absolute change than the one after it, and
\* events of equal absolute change in the order they were given
C22_Descending ==
    pc = "F_priced" =>
      LET given == probe.given
          blocks == probe.message.blocks
          Place(i) == CHOOSE k \in 1..Len(given) : given[k].ticker = blocks[i].ticker
      IN  /\ probe.message.none <=> given = <<>>
          /\ Len(blocks) = Len(given)
          /\ {blocks[i] : i \in 1..Len(blocks)} =
               {PriceBlock(given[k]) : k \in 1..Len(given)}
          /\ \A i \in 1..(Len(blocks) - 1) :
               \/ Abs(blocks[i].change_pct) > Abs(blocks[i + 1].change_pct)
               \/ /\ Abs(blocks[i].change_pct) = Abs(blocks[i + 1].change_pct)
                  /\ Place(i) < Place(i + 1)

\* two events given smallest first, rendered largest first
C22_Witness ==
    /\ pc = "F_priced"
    /\ Len(probe.given) = 2
    /\ Abs(probe.given[1].change_pct) < Abs(probe.given[2].change_pct)
    /\ probe.message.blocks[1].ticker = probe.given[2].ticker

\* C23: a formatter leaves the list it is given, the other list and the
\* ledger as they were
C23_FormattersArePure ==
    [][/\ new_filings' = new_filings
       /\ big_moves' = big_moves
       /\ sent_alerts_cache' = sent_alerts_cache]_vars

\* the tier a severity marker stands for
TierOf(marker) ==
    IF marker = "siren3" THEN 3 ELSE IF marker = "siren1" THEN 2 ELSE 1

\* the tier an urgency stands for
TierOfUrgency(urgency) ==
    IF urgency = "CRITICAL" THEN 3 ELSE IF urgency = "HIGH" THEN 2 ELSE 1

\* C24: the urgency of a price batch is the highest tier among the markers
\* of its events, and a marker is of the highest tier from 10 percent on, of
\* the middle tier from 5 percent on, and of the lowest tier below
C24_UrgencyIsHighestTier ==
    (pc = "F_priced" /\ probe.given # <<>>) =>
      LET given == probe.given
          blocks == probe.message.blocks
          Some(cut) == \E k \in 1..Len(given) : Abs(given[k].change_pct) >= cut
      IN  /\ probe.urgency = (IF Some(100000) THEN "CRITICAL"
                               ELSE IF Some(50000) THEN "HIGH" ELSE "MEDIUM")
          /\ \A i \in 1..Len(blocks) :
               blocks[i].urgency =
                 (IF Abs(blocks[i].change_pct) >= 100000 THEN "siren3"
                  ELSE IF Abs(blocks[i].change_pct) >= 50000 THEN "siren1"
                  ELSE "warning")
          /\ \E i \in 1..Len(blocks) :
               TierOfUrgency(probe.urgency) = TierOf(blocks[i].urgency)
          /\ \A i \in 1..Len(blocks) :
               TierOfUrgency(probe.urgency) >= TierOf(blocks[i].urgency)

\* a batch of a move of exactly 10 percent and a move of 4 percent
C24_Witness ==
    /\ pc = "F_priced"
    /\ Len(probe.given) = 2
    /\ \E i \in 1..2 : Abs(probe.given[i].change_pct) = 100000
    /\ \E i \in 1..2 : Abs(probe.given[i].change_pct) = 40000
    /\ probe.urgency = "CRITICAL"

\* C25 as stated: no delivery is attempted before both scanners have run
C25_BothScannersBeforeAnyDelivery ==
    (sendResult.filings # "none" \/ sendResult.prices # "none"
       \/ sendResult.summary # "none")
      => pc \in {"deliver_prices", "summary", "save"}

\* C25: a pass goes from the filing scan to the delivery of the filings,
\* then to the price scan, to the delivery of the price events and to the
\* summary decision; the delivery of a batch is attempted after the scan
\* that made it, and the one of the filings before the price scan
C25_EachScannerBeforeItsDelivery ==
    /\ [](/\ sendResult.filings # "none"
              => pc \in {"scan_prices", "deliver_prices", "summary", "save"}
          /\ sendResult.prices # "none" => pc \in {"summary", "save"}
          /\ sendResult.summary # "none" => pc = "save"
          /\ pc \in {"scan_filings", "deliver_filings", "scan_prices"}
              => big_moves = <<>>
          /\ (pc = "scan_prices" /\ new_filings # <<>>)
              => sendResult.filings # "none"
          /\ (pc = "summary" /\ big_moves # <<>>)
              => sendResult.prices # "none")
    /\ [][/\ new_filings' # new_filings => pc = "scan_filings"
          /\ big_moves' # big_moves => pc \in {"scan_prices", "deliver_prices"}
          /\ sendResult'.filings # sendResult.filings => pc = "deliver_filings"
          /\ sendResult'.prices # sendResult.prices => pc = "deliver_prices"
          /\ sendResult'.summary # sendResult.summary => pc = "summary"]_vars

\* a pass about to scan the prices, its filings delivered
C25_Witness ==
    /\ pc = "scan_prices"
    /\ new_filings # <<>>
    /\ sendResult.filings = "ok"
    /\ big_moves = <<>>
    /\ sendResult.prices = "none"

\* the alert identity of what a history entry is about
KeyOfEntry(e) ==
    IF e.kind = "file" THEN FilingKey(e.who[1], Tail(e.who))
    ELSE IF e.kind = "price"
         THEN PriceKey(e.who[1], [day |-> e.day, hm |-> e.hour * 60, sec |-> 0])
         ELSE SummaryKey([day |-> e.day, hm |-> 0, sec |-> 0])

\* the identities a file holds
StoredKeys(text) == LoadedKeys(text, NumLines(text))

\* C26: of two processes on one file the last to save wins: a complete save
\* leaves in the file the ledger of the process that saves and nothing
\* else, so that what only the other process had marked is gone; and what
\* is delivered a second time is delivered by a process whose ledger does
\* not hold it
C26_LastWriteWins ==
    [][/\ (pc = "save" /\ pc' = "exit" /\ peer' = peer /\ saveOk')
            => StoredKeys(store') = sent_alerts_cache
       /\ \A e \in resent' \ resent : KeyOfEntry(e) \notin sent_alerts_cache]_vars

\* both processes have saved without a failure: the file lacks an identity
\* that the first to save had delivered and marked, and both have delivered
\* the same filing
C26_Witness ==
    /\ pc = "exit"
    /\ peer.pc = "exit"
    /\ ioFailures = 0
    /\ saveOk
    /\ peer.saveOk
    /\ StoredKeys(store) = savedSet
    /\ \E k \in peer.savedSet : k \notin StoredKeys(store)
    /\ \E e \in resent : e.kind = "file"

\* C27: no two events of a list a scanner returns have the same alert
\* identity
C27_NoTwoEventsShareIdentity ==
    /\ pc = "deliver_filings" =>
         \A i, j \in 1..Len(new_filings) :
           i # j => new_filings[i].alert_key # new_filings[j].alert_key
    /\ pc = "deliver_prices" =>
         \A i, j \in 1..Len(big_moves) :
           i # j => big_moves[i].alert_key # big_moves[j].alert_key

C29_NoIdentityLeavesTheStore ==
    (pc = "exit" /\ saveOk) => StoredKeys(prevStore) \subseteq StoredKeys(store)

====
